---- MODULE Spec2Model ----
(***************************************************************************)
(* Model of convert_to_blosc_and_back.py: main iterates over the series    *)
(* directories of data/raw; for each one dicom_to_zarr loads the series,   *)
(* replaces the chunked store and the JSON sidecar under data/converted,   *)
(* and zarr_to_dicom reads both back and rewrites the series, slice by     *)
(* slice, under data/reconstructed.                                        *)
(*                                                                         *)
(* Paths and file names are sequences of one-character strings, so that    *)
(* os.path.basename, os.path.splitext and the f"{i:04d}" format are        *)
(* computed as Python computes them.  A plane of the volume is the flat    *)
(* row-major sequence of its H*W elements.                                 *)
(***************************************************************************)
EXTENDS Integers, Sequences, FiniteSets, TLC

(***************************************************************************)
(* Bounds of the model.                                                    *)
(***************************************************************************)
MaxSeries == 2      \* series directories under data/raw
MaxDepth == 2       \* slices of one series
MaxFaults == 1      \* library calls that raise during one run of main

(***************************************************************************)
(* Path helpers (os.path).                                                 *)
(***************************************************************************)
DigitChar == <<"0", "1", "2", "3", "4", "5", "6", "7", "8", "9">>

RECURSIVE Digits(_)
Digits(n) ==
    IF n < 10 THEN <<DigitChar[n + 1]>>
    ELSE Digits(n \div 10) \o <<DigitChar[(n % 10) + 1]>>

RECURSIVE Concat(_)
Concat(ss) == IF ss = <<>> THEN <<>> ELSE Head(ss) \o Concat(Tail(ss))

RECURSIVE Zeros(_)
Zeros(n) == IF n <= 0 THEN <<>> ELSE <<"0">> \o Zeros(n - 1)

\* f"{i:04d}": the decimal digits of i, left-padded with zeros to width 4
Format04d(i) == Zeros(4 - Len(Digits(i))) \o Digits(i)

\* str.rfind, 1-based; 0 when the character does not occur
RFind(p, c) ==
    LET S == {k \in 1..Len(p) : p[k] = c}
    IN  IF S = {} THEN 0 ELSE CHOOSE k \in S : \A j \in S : j <= k

\* os.path.basename: what follows the last "/"
basename(p) == SubSeq(p, RFind(p, "/") + 1, Len(p))

\* os.path.splitext: <<root, ext>>; ext starts at the last "." of the last
\* component unless that component has only dots before it
splitext(p) ==
    LET sep == RFind(p, "/")
        dot == RFind(p, ".")
        lead == {k \in (sep + 1)..(dot - 1) : p[k] # "."}
    IN  IF dot > sep /\ lead # {}
        THEN <<SubSeq(p, 1, dot - 1), SubSeq(p, dot, Len(p))>>
        ELSE <<p, <<>>>>

(***************************************************************************)
(* Element types and the codec pipeline of the store (bytes, then blosc).  *)
(***************************************************************************)
Dtypes == {"uint8", "int16"}
ItemSize(dtype) == IF dtype = "uint8" THEN 1 ELSE 2
IsSigned(dtype) == dtype = "int16"

\* numpy cast of an integer into dtype (wraps modulo 2^bits)
Cast(v, dtype) ==
    LET m == 2 ^ (8 * ItemSize(dtype))
        u == v % m
    IN  IF IsSigned(dtype) /\ u >= m \div 2 THEN u - m ELSE u

RECURSIVE LEValue(_)
LEValue(bs) == IF bs = <<>> THEN 0 ELSE Head(bs) + 256 * LEValue(Tail(bs))

Reverse(s) == [k \in 1..Len(s) |-> s[Len(s) + 1 - k]]

\* the bytes of one element, in the byte order the bytes codec is given
ElemBytes(v, ts, endian) ==
    LET u == v % (2 ^ (8 * ts))
        le == [k \in 1..ts |-> (u \div (256 ^ (k - 1))) % 256]
    IN  IF endian = "little" THEN le ELSE Reverse(le)

\* bytes codec, encode: the elements of a chunk laid out one after another
BytesEncode(elems, ts, endian) ==
    [b \in 1..(Len(elems) * ts) |->
        ElemBytes(elems[((b - 1) \div ts) + 1], ts, endian)[((b - 1) % ts) + 1]]

\* bytes codec, decode: the recorded byte order and element type give the values
BytesDecode(bytes, dtype, endian) ==
    LET ts == ItemSize(dtype)
        m == 2 ^ (8 * ts)
    IN  [e \in 1..(Len(bytes) \div ts) |->
            LET eb == SubSeq(bytes, (e - 1) * ts + 1, e * ts)
                u == LEValue(IF endian = "little" THEN eb ELSE Reverse(eb))
            IN  IF IsSigned(dtype) /\ u >= m \div 2 THEN u - m ELSE u]

Bit(x, k) == (x \div (2 ^ k)) % 2
Pack8(F(_)) ==
    F(0) + 2 * F(1) + 4 * F(2) + 8 * F(3) + 16 * F(4) + 32 * F(5)
         + 64 * F(6) + 128 * F(7)

\* blosc bitshuffle filter: the elements, taken eight at a time, are bit
\* transposed (row p holds bit p of every element); bytes of elements beyond
\* the last full group of eight are copied as they are
BitShuffle(bytes, ts) ==
    LET n == Len(bytes) \div ts
        nb == n \div 8
        full == nb * 8 * ts
        ElemBit(e, p) == Bit(bytes[e * ts + (p \div 8) + 1], p % 8)
        OutByte(j) == LET p == j \div nb
                          blk == j % nb
                          F(t) == ElemBit(blk * 8 + t, p)
                      IN  Pack8(F)
    IN  [j \in 1..Len(bytes) |-> IF j <= full THEN OutByte(j - 1) ELSE bytes[j]]

BitUnshuffle(bytes, ts) ==
    LET n == Len(bytes) \div ts
        nb == n \div 8
        full == nb * 8 * ts
        InByte(j) == LET e == j \div ts
                         q == j % ts
                         F(t) == Bit(bytes[(q * 8 + t) * nb + (e \div 8) + 1], e % 8)
                     IN  Pack8(F)
    IN  [j \in 1..Len(bytes) |-> IF j <= full THEN InByte(j - 1) ELSE bytes[j]]

\* the lossless compressor stage (zstd in the configuration), modelled as
\* run-length coding: <<count, byte, count, byte, ...>>
RunLen(bs) ==
    CHOOSE r \in 1..Len(bs) :
        /\ \A k \in 1..r : bs[k] = bs[1]
        /\ (r = Len(bs) \/ bs[r + 1] # bs[1])

RECURSIVE Compress(_)
Compress(bs) ==
    IF bs = <<>> THEN <<>>
    ELSE <<RunLen(bs), bs[1]>> \o Compress(SubSeq(bs, RunLen(bs) + 1, Len(bs)))

RECURSIVE Decompress(_)
Decompress(cs) ==
    IF cs = <<>> THEN <<>>
    ELSE [k \in 1..cs[1] |-> cs[2]] \o Decompress(SubSeq(cs, 3, Len(cs)))

\* blosc codec: the frame records the typesize it shuffled with
BloscEncode(bytes, typesize) ==
    [typesize |-> typesize, data |-> Compress(BitShuffle(bytes, typesize))]
BloscDecode(frame) == BitUnshuffle(Decompress(frame.data), frame.typesize)

(***************************************************************************)
(* Program constants and the inputs of the model.                          *)
(***************************************************************************)
RAW_DIR == <<"d", "a", "t", "a", "/", "r", "a", "w">>

\* a series directory is named after a UID-like id, "1.<s>"
SeriesId(s) == <<"1", ".">> \o Digits(s)
SeriesDir(s) == RAW_DIR \o <<"/">> \o SeriesId(s)

\* naming schemes of the slice files the series discovery returns
Schemes == {"dcm", "ima", "noext", "pad"}
FileName(scheme, j) ==
    CASE scheme = "dcm" -> <<"a">> \o Digits(j) \o <<".", "d", "c", "m">>
      [] scheme = "ima" -> <<"b">> \o Digits(j) \o <<".", "i", "m", "a">>
      [] scheme = "noext" -> <<"c">> \o Digits(j)
      [] OTHER -> Format04d(j) \o <<".", "d", "c", "m">>
NameList(s, scheme, n) ==
    [j \in 1..n |-> SeriesDir(s) \o <<"/">> \o FileName(scheme, j)]

\* tag values as json.load returns them: str, int, float (n tenths, one
\* decimal digit), bool, None, list (items: values) and dict (items: pairs
\* <<key, value>>, keys are strings)
StrVal(cs) == [kind |-> "str", s |-> cs, n |-> 0, items |-> <<>>]
IntVal(n) == [kind |-> "int", s |-> <<>>, n |-> n, items |-> <<>>]
FloatVal(t) == [kind |-> "float", s |-> <<>>, n |-> t, items |-> <<>>]
BoolVal(b) ==
    [kind |-> "bool", s |-> <<>>, n |-> IF b THEN 1 ELSE 0, items |-> <<>>]
NoneVal == [kind |-> "none", s |-> <<>>, n |-> 0, items |-> <<>>]
ListVal(vs) == [kind |-> "list", s |-> <<>>, n |-> 0, items |-> vs]
DictVal(kvs) == [kind |-> "dict", s |-> <<>>, n |-> 0, items |-> kvs]

\* str(int)
PyInt(n) == IF n < 0 THEN <<"-">> \o Digits(-n) ELSE Digits(n)
\* str(float) of t / 10 (shortest repr: one decimal digit, never an exponent
\* below 1e16)
PyFloat(t) ==
    LET m == IF t < 0 THEN -t ELSE t
    IN  (IF t < 0 THEN <<"-">> ELSE <<>>)
            \o Digits(m \div 10) \o <<".">> \o Digits(m % 10)
\* repr(str) of printable text: single quotes, double quotes when the text
\* holds a single quote and no double quote; the quote in use and the
\* backslash are escaped
PyQuote(cs) ==
    LET chars == {cs[k] : k \in 1..Len(cs)}
        q == IF "'" \in chars /\ "\"" \notin chars THEN "\"" ELSE "'"
    IN  <<q>> \o Concat([k \in 1..Len(cs) |->
                    IF cs[k] = "\\" \/ cs[k] = q
                    THEN <<"\\", cs[k]>> ELSE <<cs[k]>>]) \o <<q>>
\* ", ".join(parts)
RECURSIVE PyJoin(_)
PyJoin(parts) ==
    IF parts = <<>> THEN <<>>
    ELSE IF Len(parts) = 1 THEN parts[1]
    ELSE parts[1] \o <<",", " ">> \o PyJoin(Tail(parts))
\* repr(v)
RECURSIVE PyRepr(_)
PyRepr(v) ==
    CASE v.kind = "str" -> PyQuote(v.s)
      [] v.kind = "int" -> PyInt(v.n)
      [] v.kind = "float" -> PyFloat(v.n)
      [] v.kind = "bool" ->
            IF v.n = 1 THEN <<"T", "r", "u", "e">>
            ELSE <<"F", "a", "l", "s", "e">>
      [] v.kind = "none" -> <<"N", "o", "n", "e">>
      [] v.kind = "list" ->
            <<"[">> \o PyJoin([k \in 1..Len(v.items) |-> PyRepr(v.items[k])])
                \o <<"]">>
      [] OTHER ->
            <<"{">> \o PyJoin([k \in 1..Len(v.items) |->
                        PyQuote(v.items[k][1]) \o <<":", " ">>
                            \o PyRepr(v.items[k][2])])
                \o <<"}">>
\* Python str(v): the text itself for a str, repr(v) for the other values
PyStr(v) == IF v.kind = "str" THEN v.s ELSE PyRepr(v)

\* the tag mapping the reader holds for slice j (0-based): an ordered list of
\* <<key, value>> pairs with distinct keys, values are strings
ReaderTags(j) ==
    << <<"0008|0060", StrVal(<<"C", "T">>)>>,
       <<"0020|0013", StrVal(Digits(j + 1))>> >>

\* planes of the volumes of the batch: H = 1, W = 2; the second slice of a
\* 16-bit series is all zero
PlaneOf(s, j, dtype) ==
    IF dtype = "uint8" THEN <<j + 1, 200 + s>>
    ELSE IF j = 1 THEN <<0, 0>>
    ELSE <<-(j + 1), 258 * s>>
VolumeOf(s, dtype, depth) ==
    [dtype |-> dtype, shape |-> <<depth, 1, 2>>,
     planes |-> [j \in 1..depth |-> PlaneOf(s, j - 1, dtype)]]
NoArray == [dtype |-> "uint8", shape |-> <<0, 0, 0>>, planes |-> <<>>]

(***************************************************************************)
(* The chunked store: creation parameters, chunk write and read.           *)
(***************************************************************************)
NoStore ==
    [exists |-> FALSE, shape |-> <<0, 0, 0>>, chunks |-> <<0, 0, 0>>,
     dtype |-> "uint8", endian |-> "little", typesize |-> 0, data |-> {}]

\* chunks = (1, arr.shape[1], arr.shape[2])
StoreChunks(a) == <<1, a.shape[2], a.shape[3]>>
\* "little" if sys.byteorder == "little" else "big"
StoreEndian(bo) == IF bo = "little" THEN "little" ELSE "big"
\* dtype=arr.dtype
StoreDtype_fixed(a) == "uint8"
StoreDtype(a) == a.dtype
\* typesize=arr.itemsize
StoreTypesize(a) == ItemSize(a.dtype)

\* zarr.open(zarr_path, mode="w", ...): an empty store with these parameters
NewStore(a, bo) ==
    [exists |-> TRUE, shape |-> a.shape, chunks |-> StoreChunks(a),
     dtype |-> StoreDtype(a), endian |-> StoreEndian(bo),
     typesize |-> StoreTypesize(a), data |-> {}]

PlaneSize(st) == st.shape[2] * st.shape[3]
NumChunks(st) == (st.shape[1] + st.chunks[1] - 1) \div st.chunks[1]

\* the elements chunk c (0-based) of the store holds when array a is assigned:
\* its planes cast to the store's element type, padded with the fill value 0
ChunkElems(st, a, c) ==
    LET cd == st.chunks[1]
        first == c * cd + 1
        last == IF (c + 1) * cd < a.shape[1] THEN (c + 1) * cd ELSE a.shape[1]
        body == Concat([j \in 1..(last - first + 1) |->
                    [e \in 1..PlaneSize(st) |->
                        Cast(a.planes[first + j - 1][e], st.dtype)]])
    IN  body \o [e \in 1..(cd * PlaneSize(st) - Len(body)) |-> 0]

\* one stored chunk: the codec pipeline applied to the chunk's elements
EncodeChunk(st, a, c) ==
    BloscEncode(BytesEncode(ChunkElems(st, a, c), ItemSize(st.dtype), st.endian),
                st.typesize)

\* the fill value of a store created without one
FillValue == 0
\* a chunk whose elements all equal the fill value is not stored
\* (write_empty_chunks is off by default)
IsEmptyChunk(elems) == \A e \in 1..Len(elems) : elems[e] = FillValue

\* the chunks at the path after chunk c of array a is assigned: the chunk
\* is stored in place of what its key held, or its key is deleted when the
\* chunk is empty
PutChunk(st, a, c, gen) ==
    {ch \in st.data : ch.idx # c}
        \cup (IF IsEmptyChunk(ChunkElems(st, a, c)) THEN {}
              ELSE {[idx |-> c, frame |-> EncodeChunk(st, a, c), gen |-> gen]})

\* zarr.open(zarr_path, mode="r")[:]: every plane decoded from its chunk with
\* the parameters the store records; a chunk with no key reads as the fill
\* value
ReadPlane(st, j) ==
    LET cd == st.chunks[1]
        c == (j - 1) \div cd
        off == ((j - 1) % cd) * PlaneSize(st)
        hit == {ch \in st.data : ch.idx = c}
    IN  IF hit = {} THEN [e \in 1..PlaneSize(st) |-> FillValue]
        ELSE LET ch == CHOOSE x \in hit : TRUE
                 elems == BytesDecode(BloscDecode(ch.frame), st.dtype, st.endian)
             IN  SubSeq(elems, off + 1, off + PlaneSize(st))
ReadAll(st) ==
    [dtype |-> st.dtype, shape |-> st.shape,
     planes |-> [j \in 1..st.shape[1] |-> ReadPlane(st, j)]]

(***************************************************************************)
(* The sidecar, the output directory and reconstruction's naming.          *)
(***************************************************************************)
SidecarFields ==
    {"filenames", "origin", "spacing", "direction", "size", "pixel_id",
     "pixel_id_type_as_string", "slices_metadata"}
NoSidecar ==
    [exists |-> FALSE, valid |-> FALSE, fields |-> {}, filenames |-> <<>>,
     slices_metadata |-> <<>>, gen |-> "old"]
\* open(output_path, "w") has truncated the file and json.dump has not
\* completed: a fragment that does not parse
TruncatedSidecar ==
    [exists |-> TRUE, valid |-> FALSE, fields |-> {}, filenames |-> <<>>,
     slices_metadata |-> <<>>, gen |-> "new"]
NoDir == [exists |-> FALSE, files |-> {}]

\* save_metadata: the record written for a loaded series
MetadataRecord(names, depth) ==
    [exists |-> TRUE, valid |-> TRUE, fields |-> SidecarFields,
     filenames |-> names,
     slices_metadata |-> [j \in 1..depth |-> ReaderTags(j - 1)], gen |-> "new"]

\* metadata.get(key, []) for the two list-valued keys
GetFilenames(md) == IF "filenames" \in md.fields THEN md.filenames ELSE <<>>
GetSlicesMetadata(md) ==
    IF "slices_metadata" \in md.fields THEN md.slices_metadata ELSE <<>>

\* extension = ".dcm", replaced by splitext(filenames[0])[1] when there are names
Extension_default(names) == <<".", "d", "c", "m">>
Extension(names) ==
    IF names # <<>> THEN splitext(names[1])[2] ELSE <<".", "d", "c", "m">>

\* the name slice i (0-based) is written under, relative to recon_series_dir
OutName_sequential(names, i, ext) == Format04d(i) \o ext
OutName(names, i, ext) ==
    IF i < Len(names) THEN basename(names[i + 1]) ELSE Format04d(i) \o ext

\* writer.Execute(slice_img) on out_name: the file replaces one of that name
WriteFile(dir, name, img) ==
    [dir EXCEPT !.files =
        {f \in dir.files : f.name # name}
            \cup {[name |-> name, plane |-> img.plane, meta |-> img.meta,
                   gen |-> "new"]}]

\* slice_img.SetMetaData(k, str(v))
SetMetaData(img, k, v) ==
    [img EXCEPT !.meta =
        {t \in img.meta : t.key # k} \cup {[key |-> k, value |-> PyStr(v)]}]

(***************************************************************************)
(* State.                                                                  *)
(***************************************************************************)
VARIABLES
    byteorder,        \* sys.byteorder
    raw_exists,       \* os.path.exists(RAW_DIR)
    raw,              \* data/raw/<id>: the slice files and their element type
    series_dirs,      \* main: the list of series directories
    cur,              \* main: 1-based position of the for loop in series_dirs
    pc,               \* the statement about to run
    store,            \* data/converted/<id>.zarr, per series
    sidecar,          \* data/converted/<id>.json, per series
    recon,            \* data/reconstructed/<id>, per series
    dicom_names,      \* dicom_to_zarr: the discovered file names
    arr,              \* dicom_to_zarr: the loaded array
    z_next,           \* the next chunk z[:] = arr writes
    arr_loaded,       \* zarr_to_dicom: the array read back
    metadata,         \* zarr_to_dicom: the record read back
    filenames,        \* zarr_to_dicom locals
    extension,
    slices_metadata,
    i,                \* the slice loop's index
    slice_img,        \* the slice being restored: its plane and attached tags
    key_i,            \* 1-based position in slice_tags.items()
    faults,           \* calls that have raised so far
    log               \* history of the steps taken

vars ==
    <<byteorder, raw_exists, raw, series_dirs, cur, pc, store, sidecar, recon,
      dicom_names, arr, z_next, arr_loaded, metadata, filenames, extension,
      slices_metadata, i, slice_img, key_i, faults, log>>

env == <<byteorder, raw_exists, raw, series_dirs>>
convLocals == <<dicom_names, arr, z_next>>
reconLocals ==
    <<arr_loaded, metadata, filenames, extension, slices_metadata, i,
      slice_img, key_i>>

Series == 1..MaxSeries
NoImg == [plane |-> <<>>, meta |-> {}]

Entry(step, idx, k, ok) == [s |-> cur, step |-> step, i |-> idx, k |-> k, ok |-> ok]
Logged(step, idx, k, ok) == log' = Append(log, Entry(step, idx, k, ok))

\* an exception nothing catches: it leaves process_series and main
Raise(step) ==
    /\ faults < MaxFaults
    /\ faults' = faults + 1
    /\ pc' = "crashed"
    /\ Logged(step, 0, 0, FALSE)

\* main's for loop moves to the next series directory, or ends
NextSeries ==
    /\ cur' = cur + 1
    /\ pc' = IF cur < Len(series_dirs) THEN "discover" ELSE "done"

(***************************************************************************)
(* What an earlier run of depth p left on disk for series s (p = 0: nothing).*)
(***************************************************************************)
OldVolume(s, p) == VolumeOf(s + MaxSeries, "uint8", p)
FilledStore(a, bo, gen) ==
    LET st == NewStore(a, bo)
    IN  [st EXCEPT !.data =
            UNION {PutChunk(st, a, c, gen) : c \in 0..(NumChunks(st) - 1)}]
PriorStore(s, p, bo) ==
    IF p = 0 THEN NoStore ELSE FilledStore(OldVolume(s, p), bo, "old")
PriorSidecar(s, p) ==
    IF p = 0 THEN NoSidecar
    ELSE [MetadataRecord(NameList(s, "dcm", p), p) EXCEPT !.gen = "old"]
PriorRecon(s, p) ==
    IF p = 0 THEN NoDir
    ELSE [exists |-> TRUE,
          files |-> {[name |-> FileName("dcm", j),
                      plane |-> OldVolume(s, p).planes[j], meta |-> {},
                      gen |-> "old"] : j \in 1..p}]

\* the batches under data/raw and the machines they are converted on: the
\* files of every series follow one naming scheme, 16-bit and 8-bit series
\* alternate
Batches ==
    {[scheme |-> "dcm", byteorder |-> "little"],
     [scheme |-> "noext", byteorder |-> "big"]}
BatchDtype(s) == IF s % 2 = 1 THEN "int16" ELSE "uint8"

InitLocals ==
    /\ z_next = 0
    /\ arr_loaded = NoArray
    /\ metadata = NoSidecar
    /\ filenames = <<>>
    /\ extension = <<>>
    /\ slices_metadata = <<>>
    /\ i = 0
    /\ slice_img = NoImg
    /\ key_i = 0
    /\ faults = 0
    /\ log = <<>>

Init ==
    /\ raw_exists \in BOOLEAN
    /\ \E n \in 0..MaxSeries, b \in Batches :
        /\ byteorder = b.byteorder
        /\ series_dirs = [k \in 1..n |-> k]
        /\ \E depths \in [Series -> 0..MaxDepth] :
            /\ \A s \in Series : s > n => depths[s] = 0
            /\ raw = [s \in Series |->
                        [names |-> NameList(s, b.scheme, depths[s]),
                         dtype |-> BatchDtype(s)]]
    /\ \E p \in 0..MaxDepth :
        /\ store = [s \in Series |-> PriorStore(s, p, byteorder)]
        /\ sidecar = [s \in Series |-> PriorSidecar(s, p)]
        /\ recon = [s \in Series |-> PriorRecon(s, p)]
    /\ pc = "main"
    /\ cur = 0
    /\ dicom_names = <<>>
    /\ arr = NoArray
    /\ InitLocals

(***************************************************************************)
(* main and process_series.                                                *)
(***************************************************************************)
\* main, up to the first iteration of its loop
MainStart ==
    /\ pc = "main"
    /\ IF raw_exists /\ series_dirs # <<>>
       THEN pc' = "discover" /\ cur' = 1
       ELSE pc' = "done" /\ cur' = cur
    /\ UNCHANGED <<env, store, sidecar, recon, convLocals, reconLocals,
                   faults, log>>

(***************************************************************************)
(* dicom_to_zarr.                                                          *)
(***************************************************************************)
\* where dicom_to_zarr goes once the discovery has answered
AfterDiscover_always(names) == "load"
AfterDiscover(names) == IF names = <<>> THEN "skip" ELSE "load"

\* reader.GetGDCMSeriesFileNames(series_dir); no names: return None, None,
\* process_series runs no reconstruction and main takes the next series
Discover ==
    /\ pc = "discover"
    /\ LET names == raw[series_dirs[cur]].names
       IN  /\ dicom_names' = names
           /\ IF AfterDiscover(names) = "skip"
              THEN NextSeries /\ Logged("skip", 0, 0, TRUE)
              ELSE pc' = "load" /\ cur' = cur /\ Logged("discover", 0, 0, TRUE)
    /\ UNCHANGED <<env, store, sidecar, recon, arr, z_next, reconLocals, faults>>

\* reader.Execute() and GetArrayFromImage: one plane per discovered file
Load ==
    /\ pc = "load"
    /\ arr' = VolumeOf(series_dirs[cur], raw[series_dirs[cur]].dtype,
                       Len(dicom_names))
    /\ pc' = "rm_store"
    /\ Logged("load", 0, 0, TRUE)
    /\ UNCHANGED <<env, cur, store, sidecar, recon, dicom_names, z_next,
                   reconLocals, faults>>

LoadFail ==
    /\ pc = "load"
    /\ Raise("load")
    /\ UNCHANGED <<env, cur, store, sidecar, recon, convLocals, reconLocals>>

\* if os.path.exists(zarr_path): shutil.rmtree(zarr_path)
RemoveStore_keep(st) == st
RemoveStore(st) == IF st.exists THEN NoStore ELSE st

RmStore ==
    /\ pc = "rm_store"
    /\ store' = [store EXCEPT ![series_dirs[cur]] = RemoveStore(@)]
    /\ pc' = "open_store"
    /\ Logged("rm_store", Cardinality(store[series_dirs[cur]].data), 0, TRUE)
    /\ UNCHANGED <<env, cur, sidecar, recon, convLocals, reconLocals, faults>>

\* rmtree raises part-way: some chunks of the old store are left
RmStoreFail ==
    /\ pc = "rm_store"
    /\ store[series_dirs[cur]].exists
    /\ \E keep \in SUBSET store[series_dirs[cur]].data :
        store' = [store EXCEPT ![series_dirs[cur]].data = keep]
    /\ Raise("rm_store")
    /\ UNCHANGED <<env, cur, sidecar, recon, convLocals, reconLocals>>

\* zarr.open(zarr_path, mode="w", ...): whatever is at the path is replaced
\* by an empty store
OpenStore ==
    /\ pc = "open_store"
    /\ store' = [store EXCEPT ![series_dirs[cur]] = NewStore(arr, byteorder)]
    /\ z_next' = 0
    /\ pc' = "write_chunks"
    /\ Logged("open_store", 0, 0, TRUE)
    /\ UNCHANGED <<env, cur, sidecar, recon, dicom_names, arr, reconLocals,
                   faults>>

OpenStoreFail ==
    /\ pc = "open_store"
    /\ Raise("open_store")
    /\ UNCHANGED <<env, cur, store, sidecar, recon, convLocals, reconLocals>>

\* z[:] = arr covers every chunk of the store before the statement ends
AfterChunk_first(st, n) == "save_metadata"
AfterChunk(st, n) == IF n < NumChunks(st) THEN "write_chunks" ELSE "save_metadata"

\* z[:] = arr, one chunk at a time; an empty chunk leaves no key
WriteChunk ==
    /\ pc = "write_chunks"
    /\ LET s == series_dirs[cur]
           st == store[s]
       IN  /\ store' = [store EXCEPT ![s].data = PutChunk(st, arr, z_next, "new")]
           /\ z_next' = z_next + 1
           /\ pc' = AfterChunk(st, z_next + 1)
    /\ Logged("write_chunk", z_next, 0, TRUE)
    /\ UNCHANGED <<env, cur, sidecar, recon, dicom_names, arr, reconLocals,
                   faults>>

WriteChunkFail ==
    /\ pc = "write_chunks"
    /\ Raise("write_chunk")
    /\ UNCHANGED <<env, cur, store, sidecar, recon, convLocals, reconLocals>>

\* save_metadata(image, reader, dicom_names, json_path), then the return of
\* both paths, which makes process_series call zarr_to_dicom
SaveMetadata ==
    /\ pc = "save_metadata"
    /\ sidecar' = [sidecar EXCEPT ![series_dirs[cur]] =
                        MetadataRecord(dicom_names, arr.shape[1])]
    /\ pc' = "read_store"
    /\ Logged("save_metadata", 0, 0, TRUE)
    /\ UNCHANGED <<env, cur, store, recon, convLocals, reconLocals, faults>>

\* save_metadata raises: before open(output_path, "w") the file is as it
\* was, after it the file is a fragment of the new record
SaveMetadataFail ==
    /\ pc = "save_metadata"
    /\ \E opened \in BOOLEAN :
        sidecar' = [sidecar EXCEPT ![series_dirs[cur]] =
                        IF opened THEN TruncatedSidecar ELSE @]
    /\ Raise("save_metadata")
    /\ UNCHANGED <<env, cur, store, recon, convLocals, reconLocals>>

(***************************************************************************)
(* zarr_to_dicom.                                                          *)
(***************************************************************************)
\* arr_loaded = zarr.open(zarr_path, mode="r")[:]
ReadStore ==
    /\ pc = "read_store"
    /\ arr_loaded' = ReadAll(store[series_dirs[cur]])
    /\ pc' = "load_metadata"
    /\ Logged("read_store", 0, 0, TRUE)
    /\ UNCHANGED <<env, cur, store, sidecar, recon, convLocals, metadata,
                   filenames, extension, slices_metadata, i, slice_img, key_i,
                   faults>>

ReadStoreFail ==
    /\ pc = "read_store"
    /\ Raise("read_store")
    /\ UNCHANGED <<env, cur, store, sidecar, recon, convLocals, reconLocals>>

\* load_metadata and the three subscripts succeed: the file exists, it
\* parses (json.load raises otherwise) and holds "origin", "spacing" and
\* "direction" (each a KeyError when the record lacks it)
MetadataLoads(md) ==
    /\ md.exists
    /\ md.valid
    /\ {"origin", "spacing", "direction"} \subseteq md.fields

\* metadata = load_metadata(json_path), then metadata["origin"], ["spacing"]
\* and ["direction"]
LoadMetadata ==
    /\ pc = "load_metadata"
    /\ metadata' = sidecar[series_dirs[cur]]
    /\ pc' = IF MetadataLoads(sidecar[series_dirs[cur]])
             THEN "rm_recon" ELSE "crashed"
    /\ Logged("load_metadata", 0, 0, MetadataLoads(sidecar[series_dirs[cur]]))
    /\ UNCHANGED <<env, cur, store, sidecar, recon, convLocals, arr_loaded,
                   filenames, extension, slices_metadata, i, slice_img, key_i,
                   faults>>

LoadMetadataFail ==
    /\ pc = "load_metadata"
    /\ Raise("load_metadata")
    /\ UNCHANGED <<env, cur, store, sidecar, recon, convLocals, reconLocals>>

\* if os.path.exists(recon_series_dir): shutil.rmtree(recon_series_dir)
RemoveDir_keep(d) == d
RemoveDir(d) == IF d.exists THEN NoDir ELSE d

RmRecon ==
    /\ pc = "rm_recon"
    /\ recon' = [recon EXCEPT ![series_dirs[cur]] = RemoveDir(@)]
    /\ pc' = "mk_recon"
    /\ Logged("rm_recon", Cardinality(recon[series_dirs[cur]].files), 0, TRUE)
    /\ UNCHANGED <<env, cur, store, sidecar, convLocals, reconLocals, faults>>

\* rmtree raises part-way: some of the old files are left
RmReconFail ==
    /\ pc = "rm_recon"
    /\ recon[series_dirs[cur]].exists
    /\ \E keep \in SUBSET recon[series_dirs[cur]].files :
        recon' = [recon EXCEPT ![series_dirs[cur]].files = keep]
    /\ Raise("rm_recon")
    /\ UNCHANGED <<env, cur, store, sidecar, convLocals, reconLocals>>

\* os.makedirs(recon_series_dir, exist_ok=True), then the locals of the loop
MkRecon ==
    /\ pc = "mk_recon"
    /\ recon' = [recon EXCEPT ![series_dirs[cur]].exists = TRUE]
    /\ filenames' = GetFilenames(metadata)
    /\ extension' = Extension(GetFilenames(metadata))
    /\ slices_metadata' = GetSlicesMetadata(metadata)
    /\ i' = 0
    /\ pc' = "slice"
    /\ Logged("mk_recon", 0, 0, TRUE)
    /\ UNCHANGED <<env, cur, store, sidecar, convLocals, arr_loaded, metadata,
                   slice_img, key_i, faults>>

MkReconFail ==
    /\ pc = "mk_recon"
    /\ Raise("mk_recon")
    /\ UNCHANGED <<env, cur, store, sidecar, recon, convLocals, reconLocals>>

\* for i in range(depth): slice_img = reconstructed_image[:, :, i]
SliceBegin ==
    /\ pc = "slice"
    /\ i < arr_loaded.shape[1]
    /\ slice_img' = [plane |-> arr_loaded.planes[i + 1], meta |-> {}]
    /\ key_i' = 1
    /\ pc' = IF i < Len(slices_metadata) /\ slices_metadata[i + 1] # <<>>
             THEN "tags" ELSE "write"
    /\ Logged("slice", i, 0, TRUE)
    /\ UNCHANGED <<env, cur, store, sidecar, recon, convLocals, arr_loaded,
                   metadata, filenames, extension, slices_metadata, i, faults>>

\* the loop has run through range(depth): zarr_to_dicom and process_series
\* return and main takes the next series
LoopEnd ==
    /\ pc = "slice"
    /\ i >= arr_loaded.shape[1]
    /\ NextSeries
    /\ Logged("end", 0, 0, TRUE)
    /\ UNCHANGED <<env, store, sidecar, recon, convLocals, reconLocals, faults>>

AfterTag == IF key_i < Len(slices_metadata[i + 1]) THEN "tags" ELSE "write"

\* slice_img.SetMetaData(k, str(v)) for the next pair of slice_tags.items()
AttachTag ==
    /\ pc = "tags"
    /\ LET kv == slices_metadata[i + 1][key_i]
       IN  slice_img' = SetMetaData(slice_img, kv[1], kv[2])
    /\ key_i' = key_i + 1
    /\ pc' = AfterTag
    /\ Logged("tag", i, key_i, TRUE)
    /\ UNCHANGED <<env, cur, store, sidecar, recon, convLocals, arr_loaded,
                   metadata, filenames, extension, slices_metadata, i, faults>>

\* SetMetaData raises: except Exception: pass, and the loop over the pairs
\* goes on
AttachTagFail_abort ==
    /\ pc = "tags"
    /\ faults < MaxFaults
    /\ faults' = faults + 1
    /\ i' = i + 1
    /\ key_i' = key_i
    /\ pc' = "slice"
    /\ Logged("tag", i, key_i, FALSE)
    /\ UNCHANGED <<env, cur, store, sidecar, recon, convLocals, arr_loaded,
                   metadata, filenames, extension, slices_metadata, slice_img>>
AttachTagFail ==
    /\ pc = "tags"
    /\ faults < MaxFaults
    /\ faults' = faults + 1
    /\ key_i' = key_i + 1
    /\ pc' = AfterTag
    /\ Logged("tag", i, key_i, FALSE)
    /\ UNCHANGED <<env, cur, store, sidecar, recon, convLocals, arr_loaded,
                   metadata, filenames, extension, slices_metadata, i,
                   slice_img>>

\* writer.SetFileName(out_name); writer.Execute(slice_img)
WriteSlice ==
    /\ pc = "write"
    /\ recon' = [recon EXCEPT ![series_dirs[cur]] =
                    WriteFile(@, OutName(filenames, i, extension), slice_img)]
    /\ i' = i + 1
    /\ pc' = "slice"
    /\ Logged("write", i, 0, TRUE)
    /\ UNCHANGED <<env, cur, store, sidecar, convLocals, arr_loaded, metadata,
                   filenames, extension, slices_metadata, slice_img, key_i,
                   faults>>

\* writer.Execute raises: the error is printed and the loop takes the next i
WriteSliceFail_abort ==
    /\ pc = "write"
    /\ Raise("write")
    /\ UNCHANGED <<env, cur, store, sidecar, recon, convLocals, reconLocals>>
WriteSliceFail ==
    /\ pc = "write"
    /\ faults < MaxFaults
    /\ faults' = faults + 1
    /\ i' = i + 1
    /\ pc' = "slice"
    /\ Logged("write", i, 0, FALSE)
    /\ UNCHANGED <<env, cur, store, sidecar, recon, convLocals, arr_loaded,
                   metadata, filenames, extension, slices_metadata, slice_img,
                   key_i>>

(***************************************************************************)
(* Specifications.                                                         *)
(***************************************************************************)
Next ==
    \/ MainStart
    \/ Discover
    \/ Load
    \/ LoadFail
    \/ RmStore
    \/ RmStoreFail
    \/ OpenStore
    \/ OpenStoreFail
    \/ WriteChunk
    \/ WriteChunkFail
    \/ SaveMetadata
    \/ SaveMetadataFail
    \/ ReadStore
    \/ ReadStoreFail
    \/ LoadMetadata
    \/ LoadMetadataFail
    \/ RmRecon
    \/ RmReconFail
    \/ MkRecon
    \/ MkReconFail
    \/ SliceBegin
    \/ LoopEnd
    \/ AttachTag
    \/ AttachTagFail
    \/ WriteSlice
    \/ WriteSliceFail

\* a run of main over the batch
Spec == Init /\ [][Next]_vars

(***************************************************************************)
(* zarr_to_dicom on its own: any store and any sidecar record at the paths *)
(* it is given (a record need not come from save_metadata: its lists may   *)
(* be missing or shorter than the depth, its values need not be strings,   *)
(* it may be the fragment a failed save_metadata left).                    *)
(***************************************************************************)
SidecarValues ==
    <<IntVal(-3),
      ListVal(<<StrVal(<<"a", "'">>), BoolVal(TRUE), NoneVal>>),
      FloatVal(15),
      DictVal(<< <<<<"k">>, FloatVal(-5)>>, <<<<"l">>, IntVal(7)>> >>),
      BoolVal(FALSE),
      StrVal(<<"C", "T">>)>>
SidecarTags(j) ==
    << <<"0008|0060", SidecarValues[((2 * j) % Len(SidecarValues)) + 1]>>,
       <<"0020|0013", SidecarValues[((2 * j + 1) % Len(SidecarValues)) + 1]>> >>

NoRaw == [s \in Series |-> [names |-> <<>>, dtype |-> "uint8"]]

InitRecon ==
    /\ byteorder \in {"little", "big"}
    /\ raw_exists = TRUE
    /\ raw = NoRaw
    /\ series_dirs = <<1>>
    /\ pc = "read_store"
    /\ cur = 1
    /\ dicom_names = <<>>
    /\ arr = NoArray
    /\ InitLocals
    /\ \E d \in 1..MaxDepth, dtype \in Dtypes :
        store = [s \in Series |->
                    IF s = 1
                    THEN FilledStore(VolumeOf(1, dtype, d), byteorder, "old")
                    ELSE NoStore]
    /\ \E scheme \in Schemes, n \in 0..MaxDepth, m \in 0..MaxDepth,
          missing \in {{}, {"filenames"}, {"slices_metadata"}, {"origin"},
                       SidecarFields} :
        sidecar = [s \in Series |->
                    IF s = 1
                    THEN [exists |-> TRUE, valid |-> missing # SidecarFields,
                          fields |-> SidecarFields \ missing,
                          filenames |-> NameList(1, scheme, n),
                          slices_metadata |-> [j \in 1..m |-> SidecarTags(j - 1)],
                          gen |-> "old"]
                    ELSE NoSidecar]
    /\ \E p \in 0..MaxDepth :
        recon = [s \in Series |-> IF s = 1 THEN PriorRecon(1, p) ELSE NoDir]

NextRecon ==
    \/ ReadStore
    \/ ReadStoreFail
    \/ LoadMetadata
    \/ LoadMetadataFail
    \/ RmRecon
    \/ RmReconFail
    \/ MkRecon
    \/ MkReconFail
    \/ SliceBegin
    \/ LoopEnd
    \/ AttachTag
    \/ AttachTagFail
    \/ WriteSlice
    \/ WriteSliceFail

SpecRecon == InitRecon /\ [][NextRecon]_vars

(***************************************************************************)
(* The store written by dicom_to_zarr and read back by zarr_to_dicom, for  *)
(* arrays of either element type and byte order, planes of 2 x 3 and 2 x 4.*)
(***************************************************************************)
CodecSeeds == <<0, 1, 37, 4681>>
CodecPlane(dtype, k, n) ==
    [e \in 1..n |-> Cast(CodecSeeds[k] * e + (k - 1) * 127, dtype)]
CodecVolumes ==
    UNION {
        {[dtype |-> dtype, shape |-> <<d, 2, w>>,
          planes |-> [j \in 1..d |-> CodecPlane(dtype, ks[j], 2 * w)]] :
            ks \in [1..d -> 1..Len(CodecSeeds)]} :
        dtype \in Dtypes, w \in {3, 4}, d \in 1..MaxDepth}

InitCodec ==
    /\ byteorder \in {"little", "big"}
    /\ raw_exists = TRUE
    /\ raw = NoRaw
    /\ series_dirs = <<1>>
    /\ pc = "rm_store"
    /\ cur = 1
    /\ \E a \in CodecVolumes :
        /\ arr = a
        /\ dicom_names = NameList(1, "dcm", a.shape[1])
    /\ InitLocals
    /\ store = [s \in Series |-> NoStore]
    /\ sidecar = [s \in Series |-> NoSidecar]
    /\ recon = [s \in Series |-> NoDir]

NextCodec ==
    \/ RmStore
    \/ OpenStore
    \/ WriteChunk
    \/ SaveMetadata
    \/ ReadStore

SpecCodec == InitCodec /\ [][NextCodec]_vars

(***************************************************************************)
(* Properties.                                                             *)
(***************************************************************************)
LogIdx == 1..Len(log)
Depth == arr_loaded.shape[1]
CurFiles == recon[series_dirs[cur]].files
CurNames == {f.name : f \in CurFiles}
DotDcm == <<".", "d", "c", "m">>

WriteTried(s, j) ==
    \E n \in LogIdx : log[n].s = s /\ log[n].step = "write" /\ log[n].i = j
WriteOk(s, j) ==
    \E n \in LogIdx :
        log[n].s = s /\ log[n].step = "write" /\ log[n].i = j /\ log[n].ok
TagTried(s, j, k) ==
    \E n \in LogIdx :
        log[n].s = s /\ log[n].step = "tag" /\ log[n].i = j /\ log[n].k = k
TagOk(s, j, k) ==
    \E n \in LogIdx :
        /\ log[n].s = s /\ log[n].step = "tag" /\ log[n].i = j
        /\ log[n].k = k /\ log[n].ok
Did(s, step) == \E n \in LogIdx : log[n].s = s /\ log[n].step = step
DidOk(s, step) ==
    \E n \in LogIdx : log[n].s = s /\ log[n].step = step /\ log[n].ok

\* the loop of the current series has run through every index
LoopOver == pc = "slice" /\ i = Depth
AllWritesOk == \A j \in 0..(Depth - 1) : WriteOk(cur, j)

\* the tags of slice j whose SetMetaData call did not raise
AttachedMeta(j) ==
    IF j < Len(slices_metadata)
    THEN {[key |-> slices_metadata[j + 1][k][1],
           value |-> PyStr(slices_metadata[j + 1][k][2])] :
            k \in {q \in 1..Len(slices_metadata[j + 1]) : TagOk(cur, j, q)}}
    ELSE {}

\* C1: a slice write that raises does not end the loop: after every write
\* attempt, failed or not, the loop stands at the next index; so every index
\* below the loop's position has been attempted, and every slice whose write
\* did not raise has its own file in the output directory, holding its own
\* plane of the loaded array.
C1_PartialFailure ==
    /\ (log # <<>> /\ log[Len(log)].step = "write")
            => (pc = "slice" /\ i = log[Len(log)].i + 1)
    /\ pc = "slice" =>
        /\ \A j \in 0..(i - 1) :
            /\ WriteTried(cur, j)
            /\ WriteOk(cur, j) =>
                \E f \in CurFiles :
                    /\ f.name = OutName(filenames, j, extension)
                    /\ f.plane = arr.planes[j + 1]
                    /\ f.gen = "new"
        /\ Cardinality(CurFiles) = Cardinality({j \in 0..(i - 1) : WriteOk(cur, j)})

\* the loop has ended, one write failed, a later slice was still written
C1_Witness ==
    /\ LoopOver
    /\ \E k \in 0..(Depth - 2) :
        /\ WriteTried(cur, k) /\ ~WriteOk(cur, k)
        /\ \A j \in 0..(Depth - 1) : j # k => WriteOk(cur, j)
    /\ Cardinality(CurFiles) = Depth - 1

\* C2 (as claimed): when one series fails inside dicom_to_zarr or
\* zarr_to_dicom, every later series of the batch is still processed, so
\* when main has stopped every series directory has been visited.
C2_BatchIsolation ==
    (raw_exists /\ pc \in {"done", "crashed"})
        => \A k \in 1..Len(series_dirs) : \E n \in LogIdx : log[n].s = k

\* C3: once zarr_to_dicom has written every slice of a series, the output
\* directory holds exactly one new file per slice (its plane and the tags that
\* were attached) and nothing of what the directory held before.
C3_ReconOverwrite ==
    (LoopOver /\ AllWritesOk) =>
        /\ CurFiles =
            {[name |-> OutName(filenames, j, extension),
              plane |-> arr_loaded.planes[j + 1],
              meta |-> AttachedMeta(j),
              gen |-> "new"] : j \in 0..(Depth - 1)}
        /\ Cardinality(CurFiles) = Depth

\* an earlier, deeper reconstruction was in the directory
C3_Witness ==
    /\ LoopOver
    /\ AllWritesOk
    /\ \E n \in LogIdx :
        log[n].s = cur /\ log[n].step = "rm_recon" /\ log[n].i > Depth

\* C4 (as claimed): from the moment dicom_to_zarr has started to replace the
\* store of a series (shutil.rmtree has been called, whether it returned or
\* raised), the path holds no chunk of the earlier store, and no store at all
\* until the new one is created.
C4_AsClaimed ==
    \A k \in Series :
        Did(k, "rm_store") =>
            /\ \A ch \in store[k].data : ch.gen = "new"
            /\ ~DidOk(k, "open_store") => ~store[k].exists

\* C4: no store ever holds chunks of the earlier store together with chunks
\* of the new volume.  When the delete raises part-way, what is left of the
\* earlier store stays at the path, no new store is created and the run
\* stops.  Once the delete has returned, the path holds no chunk of the
\* earlier store: it holds no store at all until the new one is created (also
\* when the run fails in between), then only chunks of the new volume, and
\* exactly the chunks of the new volume (one for every slice that is not
\* empty) once the array has been assigned.  That a chunk is new is stated of
\* every state; that it holds the encoding of its own slice is stated while
\* the array is assigned and when main has stopped.
C4_StoreReplacement ==
    \A k \in Series :
      /\ (\A ch \in store[k].data : ch.gen = "old")
            \/ (\A ch \in store[k].data : ch.gen = "new")
      /\ (Did(k, "rm_store") /\ ~DidOk(k, "rm_store")) =>
            /\ pc = "crashed"
            /\ ~Did(k, "open_store")
            /\ store[k].exists
            /\ \A ch \in store[k].data : ch.gen = "old"
      /\ DidOk(k, "rm_store") =>
            /\ \A ch \in store[k].data : ch.gen = "new"
            /\ ~DidOk(k, "open_store") => ~store[k].exists
            /\ DidOk(k, "open_store") =>
                LET a == VolumeOf(k, raw[k].dtype, Len(raw[k].names))
                    st == NewStore(a, byteorder)
                IN  /\ store[k].exists
                    /\ \A ch \in store[k].data : ch.idx \in 0..(a.shape[1] - 1)
                    /\ pc \in {"write_chunks", "save_metadata", "read_store",
                               "done", "crashed"} =>
                        \A ch \in store[k].data :
                            ch.frame = EncodeChunk(st, a, ch.idx)
                    /\ Did(k, "save_metadata") =>
                        /\ {ch.idx : ch \in store[k].data} =
                            {c \in 0..(a.shape[1] - 1) :
                                \E e \in 1..PlaneSize(st) : a.planes[c + 1][e] # 0}
                        /\ Cardinality(store[k].data) =
                            Cardinality({ch.idx : ch \in store[k].data})

\* a store that existed has been replaced by one of a volume with an empty
\* slice and is about to be read
C4_Witness ==
    /\ pc = "read_store"
    /\ \E n \in LogIdx :
        log[n].s = cur /\ log[n].step = "rm_store" /\ log[n].i > 0
    /\ store[series_dirs[cur]].data # {}
    /\ Cardinality(store[series_dirs[cur]].data) < arr.shape[1]

\* C5: with as many recorded names as slices and every write succeeding, the
\* output directory holds exactly one file per slice, slice j under the
\* basename of the j-th name the discovery returned.
C5_FilenameReuse ==
    (LoopOver /\ AllWritesOk /\ Len(raw[series_dirs[cur]].names) = Depth) =>
        /\ CurNames = {basename(raw[series_dirs[cur]].names[j]) : j \in 1..Depth}
        /\ Cardinality(CurFiles) = Depth
        /\ \A j \in 1..Depth :
            \E f \in CurFiles :
                /\ f.name = basename(raw[series_dirs[cur]].names[j])
                /\ f.plane = arr.planes[j]

C5_Witness ==
    /\ LoopOver
    /\ AllWritesOk
    /\ Depth >= 2
    /\ Len(raw[series_dirs[cur]].names) = Depth
    /\ FileName("noext", 2) \in CurNames

\* the names the sidecar of the current series records (none when the key is
\* missing)
Recorded == GetFilenames(sidecar[series_dirs[cur]])

\* C6: a slice without a recorded name at its index is written under its
\* index zero-padded to four digits plus an extension, ".dcm" when no name is
\* recorded and the extension of the first recorded name otherwise; with no
\* recorded names and every write succeeding the directory holds exactly
\* 0000.dcm, 0001.dcm, ... up to the depth.
C6_FallbackNaming ==
    /\ pc = "slice" =>
        \A j \in 0..(i - 1) :
            (j >= Len(Recorded) /\ WriteOk(cur, j)) =>
                Format04d(j) \o (IF Recorded = <<>> THEN DotDcm
                                 ELSE splitext(Recorded[1])[2]) \in CurNames
    /\ (LoopOver /\ AllWritesOk /\ Recorded = <<>>) =>
        /\ CurNames = {Format04d(j) \o DotDcm : j \in 0..(Depth - 1)}
        /\ Cardinality(CurFiles) = Depth
        /\ Depth >= 2 => <<"0", "0", "0", "1", ".", "d", "c", "m">> \in CurNames

\* no recorded names, two slices or more, every slice written
C6_Witness ==
    /\ LoopOver
    /\ AllWritesOk
    /\ Recorded = <<>>
    /\ Depth >= 2
    /\ <<"0", "0", "0", "1", ".", "d", "c", "m">> \in CurNames

\* C7: the array read back from the store dicom_to_zarr wrote has the shape,
\* the element type and the values of the array that was written, whatever
\* the byte order; the store is chunked one chunk per slice, of shape
\* (1, H, W): every slice has its own chunk key, which holds that slice alone
\* when the slice has an element other than zero and is absent when it has
\* none.
C7_RoundTrip ==
    pc = "load_metadata" =>
        LET st == store[series_dirs[cur]]
        IN  /\ arr_loaded.shape = arr.shape
            /\ arr_loaded.dtype = arr.dtype
            /\ arr_loaded.planes = arr.planes
            /\ st.chunks = <<1, arr.shape[2], arr.shape[3]>>
            /\ NumChunks(st) = arr.shape[1]
            /\ st.endian = byteorder
            /\ \A j \in 1..arr.shape[1] :
                LET hit == {ch \in st.data : ch.idx = j - 1}
                IN  IF \E e \in 1..PlaneSize(st) : arr.planes[j][e] # 0
                    THEN /\ Cardinality(hit) = 1
                         /\ \A ch \in hit :
                            BytesDecode(BloscDecode(ch.frame), st.dtype, st.endian)
                                = arr.planes[j]
                    ELSE hit = {}
            /\ \A ch \in st.data : ch.idx \in 0..(arr.shape[1] - 1)

\* a big-endian store of 16-bit elements: the first plane is all zero, the
\* second has negative elements
C7_Witness ==
    /\ pc = "load_metadata"
    /\ byteorder = "big"
    /\ arr.dtype = "int16"
    /\ arr.shape[1] >= 2
    /\ arr.shape[3] = 4
    /\ \A e \in 1..8 : arr_loaded.planes[1][e] = 0
    /\ \E e \in 1..8 : arr_loaded.planes[2][e] < -256

\* C8: when the discovery yields no file for a series, dicom_to_zarr returns
\* without touching the store, the sidecar or the output directory, no
\* reconstruction runs for it, and main stands at the next series (or at its
\* end when there is none).
C8_SkipEmpty ==
    [][(pc = "discover" /\ raw[series_dirs[cur]].names = <<>>)
        => /\ store' = store
           /\ sidecar' = sidecar
           /\ recon' = recon
           /\ arr_loaded' = arr_loaded
           /\ cur' = cur + 1
           /\ pc' = IF cur < Len(series_dirs) THEN "discover" ELSE "done"]_vars

\* the first series was skipped, what an earlier run left for it is still
\* there, and the second series is being converted
C8_Witness ==
    /\ cur = 2
    /\ pc = "read_store"
    /\ log[1].step = "skip"
    /\ store[1].exists
    /\ \A ch \in store[1].data : ch.gen = "old"
    /\ recon[1].exists

\* the rank of a step in the order load, write-store, write-sidecar,
\* read-store, read-sidecar, reconstruct
Rank(step) ==
    CASE step \in {"discover", "skip"} -> 1
      [] step = "load" -> 2
      [] step = "rm_store" -> 3
      [] step = "open_store" -> 4
      [] step = "write_chunk" -> 5
      [] step = "save_metadata" -> 6
      [] step = "read_store" -> 7
      [] step = "load_metadata" -> 8
      [] step = "rm_recon" -> 9
      [] step = "mk_recon" -> 10
      [] step \in {"slice", "tag", "write"} -> 11
      [] OTHER -> 12

\* C9: the steps of a series are taken in the order load, write-store,
\* write-sidecar, read-store, read-sidecar, reconstruct, none skipped and
\* each begun only when the one before has succeeded; the store is read only
\* when this run has written all of its chunks and its sidecar; and a step of
\* the next series is taken only when the current one has ended (its
\* reconstruction has returned, or it was skipped).  The log grows by one
\* entry at a time, so the order of its last two entries, stated of every
\* reachable state, is the order of every two adjacent entries.
C9_Ordering ==
    /\ log # <<>> => (log[1].s = 1 /\ Rank(log[1].step) = 1)
    /\ Len(log) >= 2 =>
        LET a == log[Len(log) - 1]
            b == log[Len(log)]
        IN  IF a.s = b.s
            THEN /\ Rank(b.step) \in {Rank(a.step), Rank(a.step) + 1}
                 /\ Rank(b.step) = Rank(a.step)
                        => a.step \in {"write_chunk", "slice", "tag", "write"}
                 /\ a.ok \/ a.step \in {"tag", "write"}
            ELSE /\ b.s = a.s + 1
                 /\ a.step \in {"end", "skip"}
                 /\ Rank(b.step) = 1
    /\ pc = "read_store" =>
        LET st == store[series_dirs[cur]]
        IN  /\ st = FilledStore(arr, byteorder, "new")
            /\ z_next = NumChunks(st)
            /\ sidecar[series_dirs[cur]] =
                    MetadataRecord(dicom_names, arr.shape[1])
            /\ log[Len(log)].step = "save_metadata"

\* the second series has been reconstructed after the first one ended
C9_Witness ==
    /\ cur = 2
    /\ LoopOver
    /\ Depth >= 2
    /\ \E n \in LogIdx : log[n].s = 1 /\ log[n].step = "end"

\* C10: every pair of a slice's tag mapping is attempted; a pair whose
\* SetMetaData raises is left out and the others are attached; the slice is
\* then written, with the tags that were attached.
C10_BestEffortTags ==
    /\ (pc = "write" /\ i < Len(slices_metadata)) =>
        /\ \A k \in 1..Len(slices_metadata[i + 1]) : TagTried(cur, i, k)
        /\ slice_img.meta = AttachedMeta(i)
    /\ pc = "slice" =>
        \A j \in 0..(i - 1) :
            j < Len(slices_metadata) =>
                /\ \A k \in 1..Len(slices_metadata[j + 1]) : TagTried(cur, j, k)
                /\ WriteTried(cur, j)
                /\ WriteOk(cur, j) =>
                    \E f \in CurFiles :
                        /\ f.name = OutName(filenames, j, extension)
                        /\ f.meta = AttachedMeta(j)

\* the first tag of a slice failed, the second was attached and the slice
\* was written with the second tag alone
C10_Witness ==
    /\ pc = "slice"
    /\ \E j \in 0..(i - 1) :
        /\ TagTried(cur, j, 1) /\ ~TagOk(cur, j, 1)
        /\ TagOk(cur, j, 2)
        /\ WriteOk(cur, j)
        /\ \E f \in CurFiles :
            /\ f.name = OutName(filenames, j, extension)
            /\ {t.key : t \in f.meta} = {"0020|0013"}

====
